---- MODULE Spec2Model ----
(***************************************************************************)
(* Flashcard Generator plugin (src/main.ts): the settings store, the       *)
(* generation pipeline generateFlashcardsFromCurrentFile and the           *)
(* automation client invokeAnkiConnect.                                    *)
(*                                                                         *)
(* Texts (document text, model response, deck names, card fields) are      *)
(* sequences of tokens; a token is a string standing for that run of       *)
(* characters ("Deck:", "=======", "||", "Front:", "Back:", a blank, a     *)
(* line feed, or a letter).  The string operations of the code (trim,      *)
(* split, replace, the deck-name regular expression) are computed on       *)
(* these sequences as JavaScript computes them on the characters.          *)
(*                                                                         *)
(* One run of the command is modelled at a time; every await of the code   *)
(* is a step boundary, and the settings tab may change the settings        *)
(* between any two steps.                                                  *)
(***************************************************************************)
EXTENDS Integers, Sequences, FiniteSets, TLC

VARIABLES
    settings,             \* this.settings (apiKey, deckName, modelName, prompt)
    openai,               \* apiKey held by the OpenAIApi configuration
    data,                 \* what loadData() returns (the persisted settings)
    loaded,               \* onload has run loadSettings
    changes,              \* number of settings-tab edits so far
    pc,                   \* position of the run of generateFlashcardsFromCurrentFile
    noteFile,             \* local: result of getActiveFile
    text,                 \* local: text read from the vault
    deckName,             \* local: deck name of the run
    cleanedText,          \* local: text without the first "Deck:" match, trimmed
    request,              \* the createChatCompletion request in flight
    completion,           \* how the createChatCompletion promise settled
    generatedFlashcards,  \* local: response.data.choices[0].message.content
    deckId,               \* local: result of getDeckId
    idx,                  \* position of the for-of loop in the split response
    calls,                \* remote calls issued by the run, in order
    notices,              \* Notice objects created by the run, in order
    invoked               \* last reply handled by invokeAnkiConnect and its outcome

vars == <<settings, openai, data, loaded, changes, pc, noteFile, text, deckName,
          cleanedText, request, completion, generatedFlashcards, deckId, idx, calls,
          notices, invoked>>

----------------------------------------------------------------------------
(* Bounds of the model *)

MaxDocLen == 3      \* tokens in a document text
MaxRespLen == 4     \* tokens in a model response
MaxDecks == 2       \* decks in a deckNamesAndIds result
MaxChanges == 1     \* settings-tab edits in one behaviour

----------------------------------------------------------------------------
(* Tokens and texts *)

SP == " "
NL == "\n"
SEP == "======="
BAR == "||"
FRONT == "Front:"
BACK == "Back:"
DECK == "Deck:"

RECURSIVE SeqsUpTo(_, _)
SeqsUpTo(A, n) ==
    IF n = 0 THEN {<<>>}
    ELSE LET S == SeqsUpTo(A, n - 1)
         IN  S \cup {Append(s, a) : s \in {t \in S : Len(t) = n - 1}, a \in A}

IsSpace(c) == c \in {SP, NL}

RECURSIVE TrimStart(_)
TrimStart(s) == IF s # <<>> /\ IsSpace(Head(s)) THEN TrimStart(Tail(s)) ELSE s

RECURSIVE TrimEnd(_)
TrimEnd(s) ==
    IF s # <<>> /\ IsSpace(s[Len(s)]) THEN TrimEnd(SubSeq(s, 1, Len(s) - 1)) ELSE s

\* String.prototype.trim
Trim(s) == TrimEnd(TrimStart(s))

RECURSIVE SplitFrom(_, _, _)
SplitFrom(s, sep, cur) ==
    IF s = <<>> THEN <<cur>>
    ELSE IF Head(s) = sep THEN <<cur>> \o SplitFrom(Tail(s), sep, <<>>)
    ELSE SplitFrom(Tail(s), sep, Append(cur, Head(s)))

\* String.prototype.split(sep): always at least one piece
Split(s, sep) == SplitFrom(s, sep, <<>>)

\* String.prototype.replace(tok, ""): the first occurrence only
ReplaceFirst(s, tok) ==
    IF \E i \in 1..Len(s) : s[i] = tok
    THEN LET i == CHOOSE k \in 1..Len(s) :
                      s[k] = tok /\ \A m \in 1..(k - 1) : s[m] # tok
         IN  SubSeq(s, 1, i - 1) \o SubSeq(s, i + 1, Len(s))
    ELSE s

----------------------------------------------------------------------------
(* The deck-name directive: /^Deck:\s*(.+?)$/m *)

LineStart(t, i) == i = 1 \/ t[i - 1] = NL

RECURSIVE WsRun(_, _)
\* how far a greedy \s* can run from position p (blanks and line feeds alike)
WsRun(t, p) == IF p <= Len(t) /\ IsSpace(t[p]) THEN 1 + WsRun(t, p + 1) ELSE 0

\* where the lazy (.+?) started at q stops: the first position followed by
\* the end of the text or by a line feed ($ under the m flag)
LineEnd(t, q) ==
    CHOOSE e \in q..Len(t) :
        /\ e = Len(t) \/ t[e + 1] = NL
        /\ \A m \in q..(e - 1) : ~(m = Len(t) \/ t[m + 1] = NL)

\* the lengths k of \s* after which (.+?)$ can still match: "." takes any
\* character but a line terminator
WsChoices(t, p) == {k \in 0..WsRun(t, p) : p + k <= Len(t) /\ t[p + k] # NL}

MatchesAt(t, i) == t[i] = DECK /\ LineStart(t, i) /\ WsChoices(t, i + 1) # {}

NoMatch == [found |-> FALSE, start |-> 0, stop |-> 0, name |-> <<>>]

\* text.match(deckNameRegex): the leftmost match; \s* is greedy and gives
\* back only what it must
DeckNameMatch(t) ==
    IF \E i \in 1..Len(t) : MatchesAt(t, i)
    THEN LET i == CHOOSE k \in 1..Len(t) :
                      MatchesAt(t, k) /\ \A m \in 1..(k - 1) : ~MatchesAt(t, m)
             ks == WsChoices(t, i + 1)
             k == CHOOSE x \in ks : \A y \in ks : y <= x
             q == i + 1 + k
             e == LineEnd(t, q)
         IN  [found |-> TRUE, start |-> i, stop |-> e, name |-> SubSeq(t, q, e)]
    ELSE NoMatch

\* text.replace(deckNameRegex, "").trim()
CleanText(t) ==
    LET m == DeckNameMatch(t)
    IN  IF m.found
        THEN Trim(SubSeq(t, 1, m.start - 1) \o SubSeq(t, m.stop + 1, Len(t)))
        ELSE Trim(t)

----------------------------------------------------------------------------
(* Settings *)

Fields == {"apiKey", "deckName", "modelName", "prompt"}

DefaultPrompt == "You are an AnkiAssistant that will create flashcards ..."

DEFAULT_SETTINGS ==
    [apiKey |-> "", deckName |-> <<"Generated Flashcards">>,
     modelName |-> "gpt-4", prompt |-> DefaultPrompt]

ApiKeys == {"", "k0", "k1"}
DeckNames == {<<"Generated Flashcards">>, <<"a">>}
ModelNames == {"gpt-4", "gpt-3.5-turbo", "text-davinci-003"}
Prompts == {"", "custom prompt"}

\* what loadData() can return: null, or an object holding some of the fields
StoredData ==
    { [present |-> {}, value |-> DEFAULT_SETTINGS],
      [present |-> {"apiKey"},
       value |-> [DEFAULT_SETTINGS EXCEPT !.apiKey = "k0"]],
      [present |-> Fields,
       value |-> [apiKey |-> "k0", deckName |-> <<"Generated Flashcards">>,
                  modelName |-> "gpt-4", prompt |-> ""]],
      [present |-> Fields,
       value |-> [apiKey |-> "", deckName |-> <<"a">>,
                  modelName |-> "gpt-3.5-turbo", prompt |-> "custom prompt"]] }

\* Object.assign({}, DEFAULT_SETTINGS, await this.loadData())
MergeSettings(d) ==
    [f \in Fields |-> IF f \in d.present THEN d.value[f] ELSE DEFAULT_SETTINGS[f]]

\* new Configuration({apiKey: this.settings.apiKey})
Configuration(s) == s.apiKey

\* saveData(this.settings)
SaveData(s) == [present |-> Fields, value |-> s]

----------------------------------------------------------------------------
(* The automation client *)

NullId == 0

NoError == [kind |-> "absent", msg |-> ""]
NullError == [kind |-> "null", msg |-> ""]
ErrorFields == {NoError, NullError, [kind |-> "string", msg |-> "boom"]}

NullResult == [kind |-> "null", decks |-> <<>>, id |-> NullId]
NoResult == [kind |-> "absent", decks |-> <<>>, id |-> NullId]
IdResult(n) == [kind |-> "id", decks |-> <<>>, id |-> n]
ListResult(l) == [kind |-> "list", decks |-> l, id |-> NullId]

\* entries a deckNamesAndIds list can hold when the run looks for deck n
DeckEntries(n) ==
    {[name |-> n, id |-> 1], [name |-> n, id |-> 2],
     [name |-> <<"Other">>, id |-> 3]}

DeckLists(n) == SeqsUpTo(DeckEntries(n), MaxDecks)

TransportFailure ==
    [transport |-> "fail", body |-> [error |-> NoError, result |-> NoResult]]

Replies(results) ==
    {TransportFailure} \cup
    {[transport |-> "ok", body |-> [error |-> e, result |-> r]] :
        e \in ErrorFields, r \in results}

Ok(e, r) == [transport |-> "ok", body |-> [error |-> e, result |-> r]]
Boom == [kind |-> "string", msg |-> "boom"]

\* replies to deckNamesAndIds while the run looks for deck n: every body, or
\* (few) a failure, an error, a list without n and a list with n
DeckReplies(n, every) ==
    IF every
    THEN Replies({NullResult, NoResult} \cup {ListResult(l) : l \in DeckLists(n)})
    ELSE {TransportFailure, Ok(Boom, NullResult), Ok(NullError, ListResult(<<>>)),
          Ok(NullError, ListResult(<<[name |-> n, id |-> 1]>>))}

\* replies to createDeck and to addNote: every body, or (few) a failure, an
\* error and a success
IdReplies(every) ==
    IF every
    THEN Replies({NullResult, IdResult(1)})
    ELSE {TransportFailure, Ok(Boom, NullResult), Ok(NullError, IdResult(1))}

NoValue == NoResult

\* a client that hands back the result whatever the error property holds
invokeAnkiConnect_IgnoresError(reply) ==
    IF reply.transport = "fail"
    THEN [threw |-> TRUE, message |-> "request failed", value |-> NoValue]
    ELSE [threw |-> FALSE, message |-> "", value |-> reply.body.result]

\* invokeAnkiConnect: requestUrl throws on a transport failure; a body whose
\* own error property is not null is thrown; otherwise the result is returned
invokeAnkiConnect(reply) ==
    IF reply.transport = "fail"
    THEN [threw |-> TRUE, message |-> "request failed", value |-> NoValue]
    ELSE IF reply.body.error.kind # "absent" /\ reply.body.error.kind # "null"
    THEN [threw |-> TRUE, message |-> reply.body.error.msg, value |-> NoValue]
    ELSE [threw |-> FALSE, message |-> "", value |-> reply.body.result]

\* a lookup that takes the first deck of the list without comparing names
getDeckId_AnyName(reply, name) ==
    LET r == invokeAnkiConnect(reply)
    IN  IF r.threw \/ r.value.kind # "list" \/ r.value.decks = <<>> THEN NullId
        ELSE r.value.decks[1].id

\* getDeckId: the id of the first deck of that name; null when there is
\* none, and when the call or the iteration throws (caught and logged)
getDeckId(reply, name) ==
    LET r == invokeAnkiConnect(reply)
    IN  IF r.threw \/ r.value.kind # "list" THEN NullId
        ELSE LET l == r.value.decks
             IN  IF \E i \in 1..Len(l) : l[i].name = name
                 THEN l[CHOOSE i \in 1..Len(l) :
                            l[i].name = name
                            /\ \A m \in 1..(i - 1) : l[m].name # name].id
                 ELSE NullId

----------------------------------------------------------------------------
(* The generation pipeline *)

N_ApiKey == "OpenAI API key is required for Flashcard Generator plugin to work"
N_NoText == "Couldn't retrieve any text"
N_Waiting == "Generating flashcards, please wait..."
N_NoDeck == "Could not find deck. Creating it"
N_Success == "Flashcards generated and added to Anki!"
N_Error == "An error occurred while generating flashcards"
N_CreateError == "An error occurred while creating the deck"

SystemMessage ==
    "You are an AnkiAssistant that will create flashcards to be used in the Anki App."
UserPrefix == "Create flashcards from the following text:"

NoText == <<>>
Undefined == <<"undefined">>

NoRequest ==
    [key |-> "", model |-> "", system |-> "", prompt |-> "", content |-> NoText]

\* the arguments of createChatCompletion, and the key of the client that sends it
ChatRequest(s, key, cleaned) ==
    [key |-> key, model |-> s.modelName, system |-> SystemMessage,
     prompt |-> s.prompt, content |-> <<UserPrefix>> \o cleaned]

Call(action, deck, front, back) ==
    [action |-> action, deck |-> deck, front |-> front, back |-> back]

\* a catch that logs the error and shows nothing
RunCatch_Silent(i, cs, ns) ==
    [pc |-> "done", idx |-> i, calls |-> cs, notices |-> ns]

\* the catch of the run (lines 153-156): the generic notice, and the run ends
RunCatch(i, cs, ns) ==
    [pc |-> "done", idx |-> i, calls |-> cs, notices |-> Append(ns, N_Error)]

\* createDeck without its try/catch: the error reaches the catch of the run
createDeck_NoCatch(reply, ns) ==
    [threw |-> invokeAnkiConnect(reply).threw, notices |-> ns]

\* createDeck (lines 174-183): an error of the call is caught here and shown
createDeck(reply, ns) ==
    IF invokeAnkiConnect(reply).threw
    THEN [threw |-> FALSE, notices |-> Append(ns, N_CreateError)]
    ELSE [threw |-> FALSE, notices |-> ns]

\* addCardToDeck without its try/catch: the error reaches the catch of the run
addCardToDeck_NoCatch(reply, ns) ==
    [threw |-> invokeAnkiConnect(reply).threw, notices |-> ns]

\* addCardToDeck (lines 185-210): an error of the call is caught here and
\* the error itself is shown
addCardToDeck(reply, ns) ==
    IF invokeAnkiConnect(reply).threw
    THEN [threw |-> FALSE, notices |-> Append(ns, invokeAnkiConnect(reply).message)]
    ELSE [threw |-> FALSE, notices |-> ns]

\* generatedFlashcards.trim().split("=======")
Segments(g) == Split(Trim(g), SEP)

\* a loop body that guards the missing half (back?.replace) and passes it on
ParseFlashcard_OptionalBack(flashcard) ==
    LET parts == Split(flashcard, BAR)
    IN  [threw |-> FALSE, front |-> Trim(ReplaceFirst(parts[1], FRONT)),
         back |-> IF Len(parts) >= 2 THEN Trim(ReplaceFirst(parts[2], BACK))
                  ELSE Undefined]

\* the body of the loop up to addCardToDeck: destructuring gives undefined for
\* a missing half, and undefined.replace throws a TypeError
ParseFlashcard(flashcard) ==
    LET parts == Split(flashcard, BAR)
        front == parts[1]
        back == IF Len(parts) >= 2 THEN parts[2] ELSE Undefined
    IN  IF back = Undefined
        THEN [threw |-> TRUE, front |-> Trim(ReplaceFirst(front, FRONT)),
              back |-> Undefined]
        ELSE [threw |-> FALSE, front |-> Trim(ReplaceFirst(front, FRONT)),
              back |-> Trim(ReplaceFirst(back, BACK))]

\* first segment at or after i that the loop does not skip (length > 0)
NextFlashcard(segs, i) ==
    IF \E j \in i..Len(segs) : Len(segs[j]) > 0
    THEN CHOOSE j \in i..Len(segs) :
             Len(segs[j]) > 0 /\ \A m \in i..(j - 1) : Len(segs[m]) = 0
    ELSE Len(segs) + 1

\* the for-of loop from segment i up to its next await or its end: the next
\* addNote is issued, or the loop ends with the success notice, or a throw
\* reaches the catch of the run
LoopFrom(g, i, deck, cs, ns) ==
    LET segs == Segments(g)
        j == NextFlashcard(segs, i)
    IN  IF j > Len(segs)
        THEN [pc |-> "done", idx |-> j, calls |-> cs,
              notices |-> Append(ns, N_Success)]
        ELSE LET card == ParseFlashcard(segs[j])
             IN  IF card.threw
                 THEN RunCatch(j, cs, ns)
                 ELSE [pc |-> "addNote", idx |-> j,
                       calls |-> Append(cs, Call("addNote", deck, card.front,
                                                 card.back)),
                       notices |-> ns]

NoInvoke == [reply |-> TransportFailure, outcome |-> invokeAnkiConnect(TransportFailure),
             action |-> "none"]
Invoked(action, reply) ==
    [reply |-> reply, outcome |-> invokeAnkiConnect(reply), action |-> action]

----------------------------------------------------------------------------
(* Inputs *)

DocAlphabet == {DECK, SP, NL, "a"}
Texts == SeqsUpTo(DocAlphabet, MaxDocLen)

\* a handful of texts: empty, without and with a deck directive
FewTexts == {<<>>, <<"a">>, <<DECK, SP, "a">>}

RespAlphabet == {SEP, BAR, SP, "A"}
\* responses that carry the "Front:" and "Back:" labels
LabelledResponses ==
    { <<FRONT, SP, "Q1", SP, BAR, SP, BACK, SP, "A1", NL, SEP, NL,
        FRONT, SP, "Q2", SP, BAR, SP, BACK, SP, "A2">>,
      <<BACK, "A", FRONT, BAR, FRONT, "B", BACK, BACK>>,
      <<"A", BAR, "B", SEP, "C", BAR, "D">> }
\* a response with a segment of white space only between two cards
BlankSegmentResponse == <<"A", BAR, "B", SEP, NL, SEP, "C", BAR, "D">>
Responses ==
    SeqsUpTo(RespAlphabet, MaxRespLen) \cup LabelledResponses
        \cup {BlankSegmentResponse}

\* a handful of responses: one card, two cards, a segment without "||"
FewResponses == {<<"A", BAR, "B">>, <<"A", BAR, "B", SEP, "C", BAR, "D">>, <<"A">>}

----------------------------------------------------------------------------
(* Initial state: the plugin object is constructed, onload has not run *)

Init ==
    /\ settings = DEFAULT_SETTINGS
    /\ openai = ""
    /\ data \in StoredData
    /\ loaded = FALSE
    /\ changes = 0
    /\ pc = "idle"
    /\ noteFile = "null"
    /\ text = NoText
    /\ deckName = NoText
    /\ cleanedText = NoText
    /\ request = NoRequest
    /\ completion = "none"
    /\ generatedFlashcards = NoText
    /\ deckId = NullId
    /\ idx = 0
    /\ calls = <<>>
    /\ notices = <<>>
    /\ invoked = NoInvoke

run == <<pc, noteFile, text, deckName, cleanedText, request, completion,
         generatedFlashcards, deckId, idx, calls, notices, invoked>>

----------------------------------------------------------------------------
(* Settings store *)

\* onload -> loadSettings
loadSettings ==
    /\ ~loaded
    /\ settings' = MergeSettings(data)
    /\ openai' = Configuration(settings')
    /\ loaded' = TRUE
    /\ UNCHANGED <<data, changes, run>>

\* a settings tab that builds a new client when a field changes
Change_RebuildsClient(field, value) ==
    /\ loaded
    /\ changes < MaxChanges
    /\ changes' = changes + 1
    /\ settings' = [settings EXCEPT ![field] = value]
    /\ data' = SaveData(settings')
    /\ openai' = Configuration(settings')
    /\ UNCHANGED <<loaded, run>>

\* onChange of a text field or of the dropdown, then saveSettings
Change(field, value) ==
    /\ loaded
    /\ changes < MaxChanges
    /\ changes' = changes + 1
    /\ settings' = [settings EXCEPT ![field] = value]
    /\ data' = SaveData(settings')
    /\ UNCHANGED <<openai, loaded, run>>

SetApiKey == \E v \in ApiKeys : Change("apiKey", v)
SetDeckName == \E v \in DeckNames : Change("deckName", v)
SetModelName == \E v \in ModelNames : Change("modelName", v)
SetPrompt == \E v \in Prompts : Change("prompt", v)

----------------------------------------------------------------------------
(* generateFlashcardsFromCurrentFile, one action per await *)

store == <<settings, openai, data, loaded, changes>>

\* lines 64-74: the command starts; up to the await of vault.read
Generate ==
    /\ loaded
    /\ pc \in {"idle", "done"}
    /\ \E f \in {"null", "file"} :
        /\ noteFile' = f
        /\ pc' = IF f = "null" THEN "done" ELSE "read"
    /\ notices' = IF settings.apiKey = "" THEN <<N_ApiKey>> ELSE <<>>
    /\ calls' = <<>>
    /\ text' = NoText
    /\ deckName' = NoText
    /\ cleanedText' = NoText
    /\ request' = NoRequest
    /\ completion' = "none"
    /\ generatedFlashcards' = NoText
    /\ deckId' = NullId
    /\ idx' = 0
    /\ invoked' = NoInvoke
    /\ UNCHANGED store

\* lines 74-117: vault.read returns; up to the await of createChatCompletion
ReadReturns(T) ==
    /\ pc = "read"
    /\ \E t \in T :
        /\ text' = t
        /\ IF t = <<>>
           THEN /\ notices' = Append(notices, N_NoText)
                /\ pc' = "done"
                /\ UNCHANGED <<deckName, cleanedText, request, completion, calls>>
           ELSE /\ deckName' = IF DeckNameMatch(t).found
                               THEN DeckNameMatch(t).name
                               ELSE settings.deckName
                /\ cleanedText' = CleanText(t)
                /\ notices' = Append(notices, N_Waiting)
                /\ request' = ChatRequest(settings, openai, cleanedText')
                /\ completion' = "pending"
                /\ calls' = Append(calls, Call("createChatCompletion", NoText,
                                               NoText, NoText))
                /\ pc' = "model"
    /\ UNCHANGED <<noteFile, generatedFlashcards, deckId, idx, invoked>>
    /\ UNCHANGED store

\* lines 96-124: the completion arrives; up to the await inside getDeckId
ModelReturns(R) ==
    /\ pc = "model"
    /\ \E g \in R :
        /\ generatedFlashcards' = g
        /\ calls' = Append(calls, Call("deckNamesAndIds", deckName, NoText, NoText))
        /\ pc' = "getDeckId"
    /\ request' = NoRequest
    /\ completion' = "fulfilled"
    /\ text' = NoText
    /\ cleanedText' = NoText
    /\ UNCHANGED <<noteFile, deckName, deckId, idx, notices, invoked>>
    /\ UNCHANGED store

\* lines 96, 153-156: createChatCompletion rejects; the catch of the run
ModelFails ==
    /\ pc = "model"
    /\ notices' = RunCatch(idx, calls, notices).notices
    /\ pc' = RunCatch(idx, calls, notices).pc
    /\ request' = NoRequest
    /\ completion' = "rejected"
    /\ text' = NoText
    /\ cleanedText' = NoText
    /\ UNCHANGED <<noteFile, deckName, generatedFlashcards, deckId, idx, calls,
                   invoked>>
    /\ UNCHANGED store

\* the loop is entered with deck id known (lines 134-152)
EnterLoop(cs, ns) ==
    LET n == LoopFrom(generatedFlashcards, 1, deckName, cs, ns)
    IN  /\ pc' = n.pc
        /\ idx' = n.idx
        /\ calls' = n.calls
        /\ notices' = n.notices

\* lines 124-132: the first getDeckId returns
DeckLookupReturns(every) ==
    /\ pc = "getDeckId"
    /\ \E reply \in DeckReplies(deckName, every) :
        /\ invoked' = Invoked("deckNamesAndIds", reply)
        /\ deckId' = getDeckId(reply, deckName)
        /\ IF deckId' = NullId
           THEN /\ notices' = Append(notices, N_NoDeck)
                /\ calls' = Append(calls, Call("createDeck", deckName, NoText,
                                               NoText))
                /\ pc' = "createDeck"
                /\ idx' = idx
           ELSE EnterLoop(calls, notices)
    /\ UNCHANGED <<noteFile, text, deckName, cleanedText, request, completion,
                   generatedFlashcards>>
    /\ UNCHANGED store

\* lines 130-131, 174-183: createDeck returns, getDeckId is called again
CreateDeckReturns(every) ==
    /\ pc = "createDeck"
    /\ \E reply \in IdReplies(every) :
        /\ invoked' = Invoked("createDeck", reply)
        /\ LET c == createDeck(reply, notices)
               n == IF c.threw
                    THEN RunCatch(idx, calls, c.notices)
                    ELSE [pc |-> "regetDeckId", idx |-> idx,
                          calls |-> Append(calls, Call("deckNamesAndIds", deckName,
                                                       NoText, NoText)),
                          notices |-> c.notices]
           IN  /\ pc' = n.pc
               /\ idx' = n.idx
               /\ calls' = n.calls
               /\ notices' = n.notices
    /\ UNCHANGED <<noteFile, text, deckName, cleanedText, request, completion,
                   generatedFlashcards, deckId>>
    /\ UNCHANGED store

\* line 131: the second getDeckId returns; the loop starts whatever it gave
DeckRelookupReturns(every) ==
    /\ pc = "regetDeckId"
    /\ \E reply \in DeckReplies(deckName, every) :
        /\ invoked' = Invoked("deckNamesAndIds", reply)
        /\ deckId' = getDeckId(reply, deckName)
    /\ EnterLoop(calls, notices)
    /\ UNCHANGED <<noteFile, text, deckName, cleanedText, request, completion,
                   generatedFlashcards>>
    /\ UNCHANGED store

\* lines 142-148, 185-210: addCardToDeck returns; an error of addNote is
\* caught there and shown, and the loop goes on
AddNoteReturns(every) ==
    /\ pc = "addNote"
    /\ \E reply \in IdReplies(every) :
        /\ invoked' = Invoked("addNote", reply)
        /\ LET a == addCardToDeck(reply, notices)
               n == IF a.threw
                    THEN RunCatch(idx, calls, a.notices)
                    ELSE LoopFrom(generatedFlashcards, idx + 1, deckName, calls,
                                  a.notices)
           IN  /\ pc' = n.pc
               /\ idx' = n.idx
               /\ calls' = n.calls
               /\ notices' = n.notices
    /\ UNCHANGED <<noteFile, text, deckName, cleanedText, request, completion,
                   generatedFlashcards, deckId>>
    /\ UNCHANGED store

\* the plugin: every operation, over all documents
Next ==
    \/ loadSettings
    \/ SetApiKey
    \/ SetDeckName
    \/ SetModelName
    \/ SetPrompt
    \/ Generate
    \/ ReadReturns(Texts)
    \/ ModelReturns(FewResponses)
    \/ ModelFails
    \/ DeckLookupReturns(FALSE)
    \/ CreateDeckReturns(FALSE)
    \/ DeckRelookupReturns(FALSE)
    \/ AddNoteReturns(FALSE)

Spec == Init /\ [][Next]_vars

\* runs of the command under the settings as loaded, over all responses
NextRun ==
    \/ loadSettings
    \/ Generate
    \/ ReadReturns(FewTexts)
    \/ ModelReturns(Responses)
    \/ ModelFails
    \/ DeckLookupReturns(FALSE)
    \/ CreateDeckReturns(FALSE)
    \/ DeckRelookupReturns(FALSE)
    \/ AddNoteReturns(FALSE)

SpecRun == Init /\ [][NextRun]_vars

\* runs of the command under the settings as loaded, over all replies of the
\* automation endpoint
NextAnki ==
    \/ loadSettings
    \/ Generate
    \/ ReadReturns(FewTexts)
    \/ ModelReturns(FewResponses)
    \/ ModelFails
    \/ DeckLookupReturns(TRUE)
    \/ CreateDeckReturns(TRUE)
    \/ DeckRelookupReturns(TRUE)
    \/ AddNoteReturns(TRUE)

SpecAnki == Init /\ [][NextAnki]_vars

----------------------------------------------------------------------------
(* Vocabulary of the properties *)

IsAddNote(c) == c.action = "addNote"
AddNotes == SelectSeq(calls, IsAddNote)
CountCalls(a) == Cardinality({i \in 1..Len(calls) : calls[i].action = a})
Shown(n) == Cardinality({i \in 1..Len(notices) : notices[i] = n})
LastNotice == IF notices = <<>> THEN "" ELSE notices[Len(notices)]

\* the run got a response from the model and has gone through deck resolution
InLoop == completion = "fulfilled" /\ pc \in {"addNote", "done"}
\* the run is over and had entered the loop over the response
LoopOver == completion = "fulfilled" /\ pc = "done"

HasBar(seg) == \E i \in 1..Len(seg) : seg[i] = BAR
BarCount(seg) == Cardinality({i \in 1..Len(seg) : seg[i] = BAR})
NonEmpty(seg) == seg # <<>>

\* the segments of a response as the specification reads them: split on
\* "=======", each one trimmed, the empty ones dropped
TrimEach(segs) == [i \in 1..Len(segs) |-> Trim(segs[i])]
SpecSegments(g) == SelectSeq(TrimEach(Split(g, SEP)), NonEmpty)
SpecCard(seg) ==
    [front |-> Trim(ReplaceFirst(Split(seg, BAR)[1], FRONT)),
     back |-> Trim(ReplaceFirst(Split(seg, BAR)[2], BACK))]
IssuedCards == [i \in 1..Len(AddNotes) |->
                   [front |-> AddNotes[i].front, back |-> AddNotes[i].back]]

\* the segments the loop of the code does not skip
LoopSegments(g) == SelectSeq(Split(Trim(g), SEP), NonEmpty)
AllWellFormed(g) == \A i \in 1..Len(LoopSegments(g)) : HasBar(LoopSegments(g)[i])

AddErrors == Shown("boom") + Shown("request failed")

----------------------------------------------------------------------------
(* Properties of runs over all responses (SpecRun) *)

\* C1: when every segment of the response that the loop does not skip holds
\* "||" and there are n >= 2 of them, the run issues exactly n addNote calls
\* and ends with the success notice, whichever of the addNote calls fail (by
\* transport or by a non-null error field): a failing addNote stops nothing.
C1_FailingAddNoteDoesNotStopRun ==
    /\ (LoopOver /\ AllWellFormed(generatedFlashcards)
            /\ Len(LoopSegments(generatedFlashcards)) >= 2)
        => /\ Len(AddNotes) = Len(LoopSegments(generatedFlashcards))
           /\ LastNotice = N_Success
           /\ Shown(N_Error) = 0
    /\ (InLoop /\ AllWellFormed(generatedFlashcards))
        => AddErrors <= Len(AddNotes)

\* a run over two well-formed segments in which both addNote calls failed,
\* one by transport and one by an error field
C1_Witness ==
    /\ LoopOver
    /\ AllWellFormed(generatedFlashcards)
    /\ Len(LoopSegments(generatedFlashcards)) = 2
    /\ Len(AddNotes) = 2
    /\ Shown("boom") = 1 /\ Shown("request failed") = 1
    /\ LastNotice = N_Success

\* C3: no addNote is ever issued with an undefined Front or Back, and a run
\* whose response has a non-blank segment without "||" ends with the generic
\* error notice, shown once.
C3_NoBarIsReportedError ==
    /\ \A i \in 1..Len(calls) :
          calls[i].action = "addNote"
              => calls[i].front # Undefined /\ calls[i].back # Undefined
    /\ (LoopOver /\ \E i \in 1..Len(SpecSegments(generatedFlashcards)) :
                        ~HasBar(SpecSegments(generatedFlashcards)[i]))
        => Shown(N_Error) = 1 /\ LastNotice = N_Error /\ Shown(N_Success) = 0

\* a run that added a card and then met a segment without "||"
C3_Witness ==
    /\ LoopOver
    /\ Len(AddNotes) >= 1
    /\ \E i \in 1..Len(SpecSegments(generatedFlashcards)) :
          ~HasBar(SpecSegments(generatedFlashcards)[i])
    /\ LastNotice = N_Error

\* C5: the response is split on "=======", each segment is trimmed and the
\* segments empty after trimming are skipped; every remaining segment that
\* holds exactly one "||" gives one addNote with the two halves (first
\* "Front:" / "Back:" removed, trimmed), in the order of the response.  Stated
\* for the responses whose remaining segments all hold exactly one "||".
C5_ResponseParsing ==
    (LoopOver /\ \A i \in 1..Len(SpecSegments(generatedFlashcards)) :
                    BarCount(SpecSegments(generatedFlashcards)[i]) = 1)
        => IssuedCards = [i \in 1..Len(SpecSegments(generatedFlashcards)) |->
                             SpecCard(SpecSegments(generatedFlashcards)[i])]

\* C8: a run that is over ended in exactly one of four ways: no open
\* document (nothing but the missing-key warning is shown), empty text (the
\* failure notice), the success notice, the generic error notice; the first
\* two without any remote call; the last notice shown is that outcome's.
O_NoDocument == noteFile = "null"
O_EmptyText == Shown(N_NoText) >= 1
O_Success == Shown(N_Success) >= 1
O_Error == Shown(N_Error) >= 1
Outcomes ==
    Cardinality({o \in {"1", "2", "3", "4"} :
        \/ o = "1" /\ O_NoDocument
        \/ o = "2" /\ O_EmptyText
        \/ o = "3" /\ O_Success
        \/ o = "4" /\ O_Error})

----------------------------------------------------------------------------
(* Properties of runs over all replies of the automation endpoint (SpecAnki) *)

LastCall == calls[Len(calls)]
\* invokeAnkiConnect has just thrown out of the named action
JustThrew(a) == invoked.action = a /\ invoked.outcome.threw
\* the reply to the n-th deckNamesAndIds of the run is the last one handled
LookupReturned(n) ==
    invoked.action = "deckNamesAndIds" /\ CountCalls("deckNamesAndIds") = n
\* that reply is a body without error whose result is a list of decks
ReturnedList ==
    /\ invoked.reply.transport = "ok"
    /\ invoked.reply.body.error.kind \in {"absent", "null"}
    /\ invoked.reply.body.result.kind = "list"
ListHasDeck ==
    \E i \in 1..Len(invoked.reply.body.result.decks) :
        invoked.reply.body.result.decks[i].name = deckName

C6_RemoteFailureAbortsRun ==
    /\ completion = "rejected"
        => pc = "done" /\ Shown(N_Error) = 1 /\ Len(calls) = 1
    /\ (JustThrew("deckNamesAndIds") \/ JustThrew("createDeck"))
        => /\ pc = "done"
           /\ Shown(N_Error) = 1
           /\ LastCall.action = invoked.action

\* C6 as amended: a failure of the model call ends the run at its catch with
\* one generic error notice and no further remote call.  A failure of
\* deckNamesAndIds is caught in getDeckId and read as "no such deck": after
\* the first lookup createDeck is issued, after the second the loop over the
\* response starts.  A failure of createDeck is caught in createDeck, which
\* shows its own notice, and the second lookup is issued.  None of these
\* shows the generic error notice.
C6_OnlyModelFailureAbortsRun ==
    /\ completion = "rejected"
        => /\ pc = "done"
           /\ Shown(N_Error) = 1 /\ LastNotice = N_Error
           /\ Len(calls) = 1 /\ LastCall.action = "createChatCompletion"
    /\ (JustThrew("deckNamesAndIds") /\ LookupReturned(1))
        => /\ pc = "createDeck"
           /\ LastCall.action = "createDeck"
           /\ LastNotice = N_NoDeck
           /\ Shown(N_Error) = 0
    /\ JustThrew("createDeck")
        => /\ pc = "regetDeckId"
           /\ LastCall.action = "deckNamesAndIds"
           /\ LastNotice = N_CreateError
           /\ Shown(N_Error) = 0
    /\ (JustThrew("deckNamesAndIds") /\ LookupReturned(2))
        => /\ InLoop
           /\ pc = "addNote" => LastCall.action = "addNote"
           /\ AllWellFormed(generatedFlashcards) => Shown(N_Error) = 0

\* both lookups and createDeck failed, and the run is adding its first card
C6_Witness ==
    /\ JustThrew("deckNamesAndIds") /\ LookupReturned(2)
    /\ Shown(N_CreateError) = 1
    /\ pc = "addNote"
    /\ Shown(N_Error) = 0

\* C7: for a reply that arrived, invokeAnkiConnect throws the body's error
\* (with its message, and without a value) when the body has an error that
\* is not null, and returns the body's result otherwise.
C7_InvokeUnwrapsReply ==
    (invoked.action # "none" /\ invoked.reply.transport = "ok")
        => IF invoked.reply.body.error.kind = "string"
           THEN /\ invoked.outcome.threw
                /\ invoked.outcome.message = invoked.reply.body.error.msg
                /\ invoked.outcome.value = NoValue
           ELSE /\ ~invoked.outcome.threw
                /\ invoked.outcome.value = invoked.reply.body.result

\* deckNamesAndIds answered {error: "boom", result: null}
C7_Witness ==
    /\ invoked.action = "deckNamesAndIds"
    /\ invoked.reply = Ok(Boom, NullResult)
    /\ invoked.outcome.threw
    /\ invoked.outcome.message = "boom"

----------------------------------------------------------------------------
(* Properties of the plugin over all documents and settings changes (Spec) *)

\* the step in which the text arrives and the model is called
CallsModel == pc = "read" /\ pc' = "model"
\* the step in which the command starts
StartsRun == loaded /\ pc \in {"idle", "done"} /\ changes' = changes

\* the document read line by line, as the specification describes the
\* directive: a line "Deck:", optional white space, a name of one character
\* or more
RECURSIVE Join(_)
Join(ls) == IF Len(ls) = 1 THEN ls[1] ELSE ls[1] \o <<NL>> \o Join(Tail(ls))
Lines(t) == Split(t, NL)
IsDeckLine(l) == Len(l) >= 2 /\ l[1] = DECK
\* \s* gives back one blank when the rest of the line is blank
DeckLineName(l) ==
    IF WsRun(l, 2) < Len(l) - 1 THEN SubSeq(l, 2 + WsRun(l, 2), Len(l))
    ELSE SubSeq(l, Len(l), Len(l))
HasDeckLine(t) == \E i \in 1..Len(Lines(t)) : IsDeckLine(Lines(t)[i])
FirstDeckLine(t) ==
    CHOOSE i \in 1..Len(Lines(t)) :
        IsDeckLine(Lines(t)[i]) /\ \A m \in 1..(i - 1) : ~IsDeckLine(Lines(t)[m])
WithoutDeckLine(t) ==
    Trim(Join([i \in 1..Len(Lines(t)) |->
                  IF i = FirstDeckLine(t) THEN <<>> ELSE Lines(t)[i]]))
DeckOfCalls ==
    \A i \in 1..Len(calls) :
        calls[i].action \in {"deckNamesAndIds", "createDeck", "addNote"}
            => calls[i].deck = deckName

\* C4: for a non-empty text, when a line of it is a deck directive the name
\* of the first such line is the deck of the run (of its lookups, createDeck
\* and addNote calls) and the text sent to the model is the text without that
\* line; when no line is one, the deck is settings.deckName and the text
\* sent is the trimmed text.
C4_DeckSelection ==
    [][/\ CallsModel =>
            IF HasDeckLine(text')
            THEN /\ deckName' = DeckLineName(Lines(text')[FirstDeckLine(text')])
                 /\ request'.content = <<UserPrefix>> \o WithoutDeckLine(text')
            ELSE /\ deckName' = settings.deckName
                 /\ request'.content = <<UserPrefix>> \o Trim(text')
       /\ DeckOfCalls']_vars

\* C9: the second message of a request carries the configured prompt, and
\* the default prompt when the configured prompt is the empty string.
C9_EmptyPromptFallsBack ==
    [][CallsModel =>
          request'.prompt = IF settings.prompt = "" THEN DefaultPrompt
                            ELSE settings.prompt]_vars

\* C10: the key of the model client is the apiKey of the settings as loaded;
\* a change made in the settings tab updates and saves the settings and
\* leaves the client alone; a request is sent with the client's key, while
\* the missing-key warning of a run follows the current settings.apiKey.
C10_ClientKeyFixedAtLoad ==
    [][/\ ~loaded /\ loaded' => openai' = settings'.apiKey
       /\ loaded => openai' = openai
       /\ changes' # changes => data' = SaveData(settings')
       /\ CallsModel => request'.key = openai
       /\ StartsRun =>
            notices' = IF settings.apiKey = "" THEN <<N_ApiKey>> ELSE <<>>]_vars

\* loaded with key k0, the key changed to k1 in the tab, a request in flight
\* with k0 and, without warning, since the current key is not empty
C10_Witness ==
    /\ pc = "model"
    /\ request.key = "k0"
    /\ settings.apiKey = "k1"
    /\ data.value.apiKey = "k1"
    /\ openai = "k0"
    /\ Shown(N_ApiKey) = 0

====
